---- MODULE Spec2Model ----
(***************************************************************************)
(* A model of FieldbookViewer (src/main.py): the range-filename lookup of  *)
(* BookViewer, the paginated document assembly of FieldbookDocManager and  *)
(* the UI handlers that drive the two process-wide managers.               *)
(*                                                                         *)
(* Text is modelled as a sequence of one-character strings, so that the    *)
(* regular expression, int() and the numeral translation are computed      *)
(* character by character. Non-ASCII literals of the source are written    *)
(* with ASCII stand-ins (a Devanagari digit d is "n" followed by d).       *)
(***************************************************************************)
EXTENDS Integers, Sequences, FiniteSets, TLC

VARIABLES
    mgr,        \* fieldbook_doc_mgr / plotregister_doc_mgr, by document kind
    config,     \* Config.data: configured template paths and root folders
    last,       \* the most recent handler or method call, its outcome and,
                \* for a save that wrote a file, the document it serialised
    bindFailed, \* history: a bind on this manager failed and none succeeded since
    disk,       \* the directory tree: each existing directory's entries
    bv,         \* the BookViewer on screen (kind "none": there is none)
    win,        \* by kind, the ImageViewerWindow the last search opened
    crashed     \* an exception left a slot and PyQt aborted the process

vars == <<mgr, config, last, bindFailed, disk, bv, win, crashed>>

docVars == <<mgr, bindFailed>>
viewVars == <<disk, bv, win, crashed>>

-----------------------------------------------------------------------------
(* Bounds of the model *)

\* units a document may hold before the model stops adding
MaxImages == 7

\* units a document may hold before the viewer windows stop pasting
MaxPastes == 1

\* characters in a text given to to_nepali_number
MaxText == 2

\* files in the leaf directory of the initial tree
MaxFiles == 2

-----------------------------------------------------------------------------
(* Documents, as python-docx presents them *)

Kinds == {"fieldbook", "plotregister"}

\* one block-level element: t its tag, x its text, a its alignment (-1: unset),
\* kwn its keep_with_next mark
El(t, x, a, kwn) == [t |-> t, x |-> x, a |-> a, kwn |-> kwn]

NoDoc == [loaded |-> FALSE, body |-> <<>>, footers |-> <<>>]

\* the paths a template setting can hold; "" is an unset key
TemplatePaths == {"tA", "tB", "tBad", "tGone"}

\* os.path.isfile(template_path)
IsFile(path) == path \in {"tA", "tB", "tBad"}

\* Document(template_path) succeeds: the file is a readable .docx
Readable(path) == path \in {"tA", "tB"}

\* the content Document(template_path) loads. tA: one section whose footer holds
\* an old paragraph; tB: a title paragraph in the body and two sections, each
\* with a footer of its own (the first with a content control besides a
\* paragraph and a table)
TemplateDoc(path) ==
    IF path = "tA"
    THEN [loaded |-> TRUE, body |-> <<>>,
          footers |-> << <<El("p", <<"old">>, -1, FALSE)>> >>]
    ELSE [loaded |-> TRUE, body |-> <<El("p", <<"title">>, -1, FALSE)>>,
          footers |-> << <<El("sdt", <<"page">>, -1, FALSE),
                           El("p", <<"old">>, -1, FALSE),
                           El("tbl", <<"old">>, -1, FALSE)>>,
                         <<El("p", <<"second">>, -1, FALSE)>> >>]

-----------------------------------------------------------------------------
(* to_nepali_number *)

Digits == {"0", "1", "2", "3", "4", "5", "6", "7", "8", "9"}

\* a table whose entry for 9 repeats the glyph of 8
num_map_dup(c) ==
    CASE c = "0" -> "n0" [] c = "1" -> "n1" [] c = "2" -> "n2" [] c = "3" -> "n3"
      [] c = "4" -> "n4" [] c = "5" -> "n5" [] c = "6" -> "n6" [] c = "7" -> "n7"
      [] c = "8" -> "n8" [] c = "9" -> "n8" [] OTHER -> c

\* str.maketrans('0123456789', <the ten Devanagari digits>)
num_map(c) ==
    CASE c = "0" -> "n0" [] c = "1" -> "n1" [] c = "2" -> "n2" [] c = "3" -> "n3"
      [] c = "4" -> "n4" [] c = "5" -> "n5" [] c = "6" -> "n6" [] c = "7" -> "n7"
      [] c = "8" -> "n8" [] c = "9" -> "n9" [] OTHER -> c

to_nepali_number(num) == [i \in 1..Len(num) |-> num_map(num[i])]

-----------------------------------------------------------------------------
(* FieldbookDocManager *)

max_images_per_page == 3

FooterKeys == {"patra_pathaune", "chan_dan", "miti", "prayojan", "rasid_no"}

\* footer_info = None
NoFooter == [set |-> FALSE, f |-> [k \in FooterKeys |-> ""]]

\* FieldbookDocManager.__init__
NewMgr ==
    [doc |-> NoDoc, section |-> "None", images_on_page |-> 0,
     loaded_template |-> "None", footer_info |-> NoFooter]

is_loaded(m) == m.doc.loaded

\* new_from_template that keeps the counter and the footer fields of the
\* document it replaces
new_from_template_keep(m, template_path) ==
    [doc |-> TemplateDoc(template_path), section |-> "sections[0]",
     images_on_page |-> m.images_on_page, loaded_template |-> template_path,
     footer_info |-> m.footer_info]

\* new_from_template, once Document(template_path) has succeeded
new_from_template(m, template_path) ==
    [doc |-> TemplateDoc(template_path), section |-> "sections[0]",
     images_on_page |-> 0, loaded_template |-> template_path,
     footer_info |-> NoFooter]

\* safe that shows a stored field even when it is empty
safe_present(info, k, dots) == IF k \in DOMAIN info THEN info[k] ELSE dots

\* safe(k, dots) of get_footer_line: info.get(k, ""), or dots when that is empty
safe(info, k, dots) == IF k \in DOMAIN info /\ info[k] # "" THEN info[k] ELSE dots

get_footer_line(m) ==
    LET info == m.footer_info.f
    IN  <<"shri", safe(info, "patra_pathaune", "dots20"),
          "ko cha.nam./da.nam.", safe(info, "chan_dan", "dots7"),
          "miti", safe(info, "miti", "dots13"),
          "ko patranusar", safe(info, "prayojan", "dots15"),
          "prayojanko lagi rasid nam", safe(info, "rasid_no", "dots21"),
          "bata rajashwa lii ... anurodh chha">>

\* the children of a footer that are neither w:p nor w:tbl, in order
RECURSIVE KeepOthers(_)
KeepOthers(s) ==
    IF s = <<>> THEN <<>>
    ELSE IF Head(s).t \in {"p", "tbl"} THEN KeepOthers(Tail(s))
         ELSE <<Head(s)>> \o KeepOthers(Tail(s))

\* the footer written without clearing what it held
NewFooter_append(m, old) ==
    old \o <<El("p", get_footer_line(m), 1, FALSE),
             El("tbl", <<"print garne", "ruju garne", "pramanit garne">>, 0, FALSE)>>

\* the footer of sections[0] after insert_footer_to_all_pages: its paragraphs
\* and tables removed, the sentence and the signature table appended
NewFooter(m, old) ==
    KeepOthers(old)
      \o <<El("p", get_footer_line(m), 1, FALSE),
           El("tbl", <<"print garne", "ruju garne", "pramanit garne">>, 0, FALSE)>>

insert_footer_to_all_pages(m, footer_info) ==
    LET m1 == [m EXCEPT !.footer_info = footer_info]
    IN  [m1 EXCEPT !.doc.footers[1] = NewFooter(m1, m.doc.footers[1])]

\* the caption text of add_image
meta_text(meta) ==
    <<"VDC: ">> \o meta.vdc \o <<" | Ward: ">> \o to_nepali_number(meta.ward)
      \o <<" | Sheet: ">> \o to_nepali_number(meta.sheet)
      \o <<" | Parcel: ">> \o to_nepali_number(meta.parcel)

\* add_image breaking the page only past the budget (> for >=)
add_image_gt(m, meta) ==
    LET brk == m.images_on_page > max_images_per_page
        b0  == IF brk THEN Append(m.doc.body, El("pb", <<>>, -1, FALSE))
                      ELSE m.doc.body
        n0  == IF brk THEN 0 ELSE m.images_on_page
        b1  == Append(b0, El("cap", meta_text(meta), -1, TRUE))
        b2  == Append(b1, El("pic", <<>>, -1, TRUE))
    IN  [m EXCEPT !.doc.body = b2, !.images_on_page = n0 + 1]

\* add_image that breaks the page and forgets to reset the counter
add_image_noreset(m, meta) ==
    LET brk == m.images_on_page >= max_images_per_page
        b0  == IF brk THEN Append(m.doc.body, El("pb", <<>>, -1, FALSE))
                      ELSE m.doc.body
        b1  == Append(b0, El("cap", meta_text(meta), -1, TRUE))
        b2  == Append(b1, El("pic", <<>>, -1, TRUE))
    IN  [m EXCEPT !.doc.body = b2, !.images_on_page = m.images_on_page + 1]

\* add_image that inserts the picture before its caption
add_image_picfirst(m, meta) ==
    LET brk == m.images_on_page >= max_images_per_page
        b0  == IF brk THEN Append(m.doc.body, El("pb", <<>>, -1, FALSE))
                      ELSE m.doc.body
        n0  == IF brk THEN 0 ELSE m.images_on_page
        b1  == Append(b0, El("pic", <<>>, -1, TRUE))
        b2  == Append(b1, El("cap", meta_text(meta), -1, TRUE))
    IN  [m EXCEPT !.doc.body = b2, !.images_on_page = n0 + 1]

\* add_image on a manager whose section is set
add_image(m, meta) ==
    LET brk == m.images_on_page >= max_images_per_page
        b0  == IF brk THEN Append(m.doc.body, El("pb", <<>>, -1, FALSE))
                      ELSE m.doc.body
        n0  == IF brk THEN 0 ELSE m.images_on_page
        b1  == Append(b0, El("cap", meta_text(meta), -1, TRUE))
        b2  == Append(b1, El("pic", <<>>, -1, TRUE))
    IN  [m EXCEPT !.doc.body = b2, !.images_on_page = n0 + 1]

\* close
close(m) ==
    [m EXCEPT !.doc = NoDoc, !.section = "None", !.loaded_template = "None",
              !.images_on_page = 0, !.footer_info = NoFooter]

\* the number of image units in a body
RECURSIVE CountPics(_)
CountPics(s) ==
    IF s = <<>> THEN 0
    ELSE (IF Head(s).t = "pic" THEN 1 ELSE 0) + CountPics(Tail(s))

-----------------------------------------------------------------------------
(* Inputs *)

\* two selections with different captions
BodyMetas ==
    { [vdc |-> <<"A", "1">>, ward |-> <<"1", "2">>, sheet |-> <<"7">>, parcel |-> <<"4">>],
      [vdc |-> <<"B">>, ward |-> <<"(No Sheet)">>, sheet |-> <<>>, parcel |-> <<"1", "0">>] }

\* the selection a unit is captioned with
DocMetas ==
    { [vdc |-> <<"A", "1">>, ward |-> <<"1", "2">>, sheet |-> <<"7">>, parcel |-> <<"4">>] }

\* what FieldbookBottomTextDialog.get_values can return
FooterInputs ==
    { [k \in FooterKeys |-> ""],
      [k \in FooterKeys |-> "v"],
      [k \in FooterKeys |-> IF k \in {"miti", "rasid_no"} THEN "v" ELSE ""] }

\* what a call leaves in last: the method or handler, the manager it worked on,
\* how it ended, its argument, the document it serialised (a save that wrote a
\* file) and, of the state it started from, the previous call and the number of
\* units the manager held
Result(op, k, outcome, arg, doc) ==
    [op |-> op, kind |-> k, outcome |-> outcome, arg |-> arg, doc |-> doc,
     pre |-> [op |-> last.op, n |-> CountPics(mgr[k].doc.body)]]

\* what a slot of the BookViewer leaves in last
ViewResult(op, k, outcome) ==
    [op |-> op, kind |-> k, outcome |-> outcome, arg |-> "", doc |-> NoDoc,
     pre |-> [op |-> "view", n |-> 0]]

-----------------------------------------------------------------------------
(* The methods of one manager, called directly *)

\* new_from_template that drops the bound document when the load fails
NewFromTemplate_closing(k, path) ==
    /\ path \in TemplatePaths
    /\ IF Readable(path)
       THEN /\ mgr' = [mgr EXCEPT ![k] = new_from_template(mgr[k], path)]
            /\ bindFailed' = [bindFailed EXCEPT ![k] = FALSE]
            /\ last' = Result("new_from_template", k, "ok", path, NoDoc)
       ELSE /\ mgr' = [mgr EXCEPT ![k] = close(mgr[k])]
            /\ bindFailed' = [bindFailed EXCEPT ![k] = TRUE]
            /\ last' = Result("new_from_template", k, "PackageNotFoundError", path, NoDoc)
    /\ UNCHANGED <<config, viewVars>>

NewFromTemplate(k, path) ==
    /\ path \in TemplatePaths
    /\ IF Readable(path)
       THEN /\ mgr' = [mgr EXCEPT ![k] = new_from_template(mgr[k], path)]
            /\ bindFailed' = [bindFailed EXCEPT ![k] = FALSE]
            /\ last' = Result("new_from_template", k, "ok", path, NoDoc)
       ELSE /\ mgr' = mgr
            /\ bindFailed' = [bindFailed EXCEPT ![k] = TRUE]
            /\ last' = Result("new_from_template", k, "PackageNotFoundError", path, NoDoc)
    /\ UNCHANGED <<config, viewVars>>

\* add_image that goes on without a bound document
AddImage_unguarded(k, meta) ==
    /\ CountPics(mgr[k].doc.body) < MaxImages
    /\ mgr' = [mgr EXCEPT ![k] = add_image(mgr[k], meta)]
    /\ last' = Result("add_image", k, "ok", meta, NoDoc)
    /\ UNCHANGED <<config, bindFailed, viewVars>>

AddImage(k, meta) ==
    /\ CountPics(mgr[k].doc.body) < MaxImages
    /\ IF mgr[k].section = "None"
       THEN /\ mgr' = mgr
            /\ last' = Result("add_image", k, "AttributeError", meta, NoDoc)
       ELSE /\ mgr' = [mgr EXCEPT ![k] = add_image(mgr[k], meta)]
            /\ last' = Result("add_image", k, "ok", meta, NoDoc)
    /\ UNCHANGED <<config, bindFailed, viewVars>>

\* doc_mgr.footer_info = info
SetFooterInfo(k, info) ==
    /\ mgr' = [mgr EXCEPT ![k].footer_info = [set |-> TRUE, f |-> info]]
    /\ last' = Result("set_footer_info", k, "ok", "", NoDoc)
    /\ UNCHANGED <<config, bindFailed, viewVars>>

\* save that writes the footer only when some stored field is non-empty
Save_nonempty(k, io) ==
    LET m == mgr[k]
        some == m.footer_info.set /\ \E f \in DOMAIN m.footer_info.f : m.footer_info.f[f] # ""
    IN
    /\ IF some /\ ~is_loaded(m)
       THEN /\ mgr' = mgr
            /\ last' = Result("save", k, "AttributeError", "", NoDoc)
       ELSE LET m1 == IF some THEN insert_footer_to_all_pages(m, m.footer_info) ELSE m
            IN  /\ mgr' = [mgr EXCEPT ![k] = m1]
                /\ last' = IF ~is_loaded(m1) THEN Result("save", k, "nothing", "", NoDoc)
                           ELSE IF io THEN Result("save", k, "ok", "", m1.doc)
                           ELSE Result("save", k, "OSError", "", NoDoc)
    /\ UNCHANGED <<config, bindFailed, viewVars>>

\* save(path); io says whether Document.save can write the path
Save(k, io) ==
    LET m == mgr[k] IN
    /\ IF m.footer_info.set /\ ~is_loaded(m)
       THEN /\ mgr' = mgr
            /\ last' = Result("save", k, "AttributeError", "", NoDoc)
       ELSE LET m1 == IF m.footer_info.set
                      THEN insert_footer_to_all_pages(m, m.footer_info)
                      ELSE m
            IN  /\ mgr' = [mgr EXCEPT ![k] = m1]
                /\ last' = IF ~is_loaded(m1) THEN Result("save", k, "nothing", "", NoDoc)
                           ELSE IF io THEN Result("save", k, "ok", "", m1.doc)
                           ELSE Result("save", k, "OSError", "", NoDoc)
    /\ UNCHANGED <<config, bindFailed, viewVars>>

Close(k) ==
    /\ mgr' = [mgr EXCEPT ![k] = close(mgr[k])]
    /\ last' = Result("close", k, "ok", "", NoDoc)
    /\ UNCHANGED <<config, bindFailed, viewVars>>

-----------------------------------------------------------------------------
(* The manager under any sequence of direct calls *)

InitConfig ==
    [fieldbook_template |-> "", plotregister_template |-> "",
     fieldbook_folder |-> <<>>, plotregister_folder |-> <<>>]

\* no BookViewer on screen: kind names what is shown instead ("login", "home";
\* "none" where the managers are driven without the windows)
NoViewer ==
    [kind |-> "none", folder |-> <<>>,
     vdcs |-> <<>>, vdc |-> <<>>, wards |-> <<>>, ward |-> <<>>,
     sheets |-> <<>>, sheet |-> <<>>, images |-> <<>>, image |-> <<>>,
     parcel |-> <<>>]

NoMeta == [vdc |-> <<>>, ward |-> <<>>, sheet |-> <<>>, parcel |-> <<>>]

NoWindow == [open |-> FALSE, dir |-> <<>>, file |-> <<>>, meta |-> NoMeta]

InitLast ==
    [op |-> "init", kind |-> "none", outcome |-> "ok", arg |-> "",
     doc |-> NoDoc, pre |-> [op |-> "init", n |-> 0]]

InitDoc ==
    /\ mgr = [k \in Kinds |-> NewMgr]
    /\ config = InitConfig
    /\ last = InitLast
    /\ disk = [p \in {} |-> <<>>]
    /\ bv = NoViewer
    /\ win = [k \in Kinds |-> NoWindow]
    /\ crashed = FALSE
    /\ bindFailed = [k \in Kinds |-> FALSE]

NextDoc ==
    \/ \E path \in TemplatePaths : NewFromTemplate("fieldbook", path)
    \/ \E meta \in DocMetas : AddImage("fieldbook", meta)
    \/ \E info \in FooterInputs : SetFooterInfo("fieldbook", info)
    \/ \E io \in BOOLEAN : Save("fieldbook", io)
    \/ Close("fieldbook")

SpecDoc == InitDoc /\ [][NextDoc]_vars

-----------------------------------------------------------------------------
(* File names and the range pattern *)

Lower(c) ==
    CASE c = "J" -> "j" [] c = "P" -> "p" [] c = "E" -> "e" [] c = "G" -> "g"
      [] OTHER -> c

\* the index of the last character of the run of digits that starts at i
\* (i - 1 when s[i] is no digit)
RECURSIVE DigitsEnd(_, _)
DigitsEnd(s, i) ==
    IF i <= Len(s) /\ s[i] \in Digits THEN DigitsEnd(s, i + 1) ELSE i - 1

At(s, i) == IF i >= 1 /\ i <= Len(s) THEN Lower(s[i]) ELSE "<end>"

\* re.match(r"(\d+)-(\d+)\.jpe?g", f, re.IGNORECASE): whether a prefix of f
\* matches, the two groups, and the index where the match ends
ReMatch(f) ==
    LET e1 == DigitsEnd(f, 1)
        e2 == DigitsEnd(f, e1 + 2)
        ext == IF At(f, e2 + 4) = "e" /\ At(f, e2 + 5) = "g" THEN e2 + 5
               ELSE IF At(f, e2 + 4) = "g" THEN e2 + 4 ELSE 0
        ok == /\ e1 >= 1
              /\ At(f, e1 + 1) = "-"
              /\ e2 >= e1 + 2
              /\ At(f, e2 + 1) = "."
              /\ At(f, e2 + 2) = "j"
              /\ At(f, e2 + 3) = "p"
              /\ ext > 0
    IN  [ok |-> ok,
         g1 |-> IF ok THEN SubSeq(f, 1, e1) ELSE <<>>,
         g2 |-> IF ok THEN SubSeq(f, e1 + 2, e2) ELSE <<>>,
         end |-> IF ok THEN ext ELSE 0]

DigitValue(c) ==
    CASE c = "0" -> 0 [] c = "1" -> 1 [] c = "2" -> 2 [] c = "3" -> 3 [] c = "4" -> 4
      [] c = "5" -> 5 [] c = "6" -> 6 [] c = "7" -> 7 [] c = "8" -> 8 [] c = "9" -> 9
      [] OTHER -> 0

\* int(s) accepts s: an optional sign and at least one digit
IsInt(s) ==
    LET d == IF s # <<>> /\ Head(s) \in {"+", "-"} THEN Tail(s) ELSE s
    IN  d # <<>> /\ \A i \in 1..Len(d) : d[i] \in Digits

RECURSIVE Decimal(_)
Decimal(d) ==
    IF d = <<>> THEN 0 ELSE 10 * Decimal(SubSeq(d, 1, Len(d) - 1)) + DigitValue(d[Len(d)])

\* int(s), for s that int() accepts
int(s) ==
    IF s # <<>> /\ Head(s) = "-" THEN 0 - Decimal(Tail(s))
    ELSE IF s # <<>> /\ Head(s) = "+" THEN Decimal(Tail(s))
    ELSE Decimal(s)

-----------------------------------------------------------------------------
(* The directory tree *)

\* a directory entry
Ent(name, dir) == [name |-> name, dir |-> dir]

\* os.path.join(p, name): an empty component leaves the directory
Join(p, name) == IF name = <<>> THEN p ELSE Append(p, name)

\* os.path.isdir
isdir(d, p) == p \in DOMAIN d

\* the names os.listdir(p) returns, in enumeration order
listdir(d, p) == [i \in 1..Len(d[p]) |-> d[p][i].name]

\* [x for x in os.listdir(p) if os.path.isdir(os.path.join(p, x))]
SubDirs(d, p) ==
    LET ds == SelectSeq(d[p], LAMBDA e : e.dir)
    IN  [i \in 1..Len(ds) |-> ds[i].name]

\* [f for f in os.listdir(p) if re.match(...)]
RangeFiles(d, p) == SelectSeq(listdir(d, p), LAMBDA f : ReMatch(f).ok)

\* the text of the "(No Sheet)" combo entry
NoSheet == <<"(No Sheet)">>

-----------------------------------------------------------------------------
(* BookViewer: the combo boxes and their slots. A slot returns the viewer   *)
(* and, in err, the exception it raised ("" for none). An exception leaves  *)
(* a called method at once; one raised in a slot run by a signal stays in   *)
(* the slot, and the emitting call goes on.                                 *)

Ret(v, err) == [bv |-> v, err |-> err]

\* F(e), with e evaluated once
Bind(e, F(_)) == CHOOSE y \in {F(x) : x \in {e}} : TRUE

\* the result r of a step and then the result of Next(r.bv), with the first
\* error of the two
Seq2(r, Next(_)) ==
    Bind(r, LAMBDA r1 :
        Bind(Next(r1.bv), LAMBDA r2 :
            Ret(r2.bv, IF r1.err # "" THEN r1.err ELSE r2.err)))

update_images(v, d, sheet) ==
    LET v1 == [v EXCEPT !.images = <<>>, !.image = <<>>]
        show(p) == Bind(RangeFiles(d, p), LAMBDA images :
                        [v1 EXCEPT !.images = images,
                                   !.image = IF images # <<>> THEN images[1] ELSE <<>>])
    IN  IF v.ward = NoSheet \/ sheet = NoSheet
        THEN LET vdc_path == Join(v.folder, v.vdc)
             IN  IF ~isdir(d, vdc_path) THEN Ret(v1, "FileNotFoundError")
                 ELSE Ret(show(vdc_path), "")
        ELSE LET sheet_path == Join(Join(Join(v.folder, v.vdc), v.ward), sheet)
             IN  IF ~isdir(d, sheet_path) THEN Ret(v1, "")
                 ELSE Ret(show(sheet_path), "")

\* sheet_combo changes its current text: currentTextChanged runs update_images
SheetSetText(v, d, text) ==
    IF v.sheet = text THEN Ret(v, "")
    ELSE update_images([v EXCEPT !.sheet = text], d, text)

\* sheet_combo.clear()
SheetClear(v, d) == SheetSetText([v EXCEPT !.sheets = <<>>], d, <<>>)

\* sheet_combo.addItems(items) on the cleared combo
SheetAddItems(v, d, items) ==
    IF items = <<>> THEN Ret(v, "")
    ELSE SheetSetText([v EXCEPT !.sheets = items], d, items[1])

update_sheets(v, d, ward) ==
    Seq2(SheetClear(v, d), LAMBDA v1 :
        IF ward = NoSheet THEN update_images(v1, d, NoSheet)
        ELSE LET ward_path == Join(Join(v1.folder, v1.vdc), ward)
             IN  IF ~isdir(d, ward_path) THEN Ret(v1, "")
                 ELSE Bind(SubDirs(d, ward_path), LAMBDA sheets :
                        Seq2(SheetAddItems(v1, d, sheets), LAMBDA v2 :
                            IF sheets = <<>> THEN Ret(v2, "")
                            ELSE update_images(v2, d, sheets[1]))))

\* ward_combo changes its current text: currentTextChanged runs update_sheets
WardSetText(v, d, text) ==
    IF v.ward = text THEN Ret(v, "")
    ELSE update_sheets([v EXCEPT !.ward = text], d, text)

\* ward_combo.clear()
WardClear(v, d) == WardSetText([v EXCEPT !.wards = <<>>], d, <<>>)

\* ward_combo.addItems(items) / addItem(item): the first item of an empty combo
\* becomes the current one
WardAddItems(v, d, items) ==
    IF items = <<>> THEN Ret(v, "")
    ELSE IF v.wards = <<>>
         THEN WardSetText([v EXCEPT !.wards = items], d, items[1])
         ELSE Ret([v EXCEPT !.wards = v.wards \o items], "")

update_wards(v, d, vdc) ==
    Seq2(WardClear(v, d), LAMBDA v1 :
        LET vdc_path == Join(v1.folder, vdc)
        IN  IF ~isdir(d, vdc_path) THEN Ret(v1, "")
            ELSE Seq2(WardAddItems(v1, d, SubDirs(d, vdc_path)), LAMBDA v2 :
                   Seq2(IF RangeFiles(d, vdc_path) # <<>>
                        THEN WardAddItems(v2, d, <<NoSheet>>)
                        ELSE Ret(v2, ""),
                        LAMBDA v3 :
                            IF v3.wards = <<>> THEN Ret(v3, "")
                            ELSE update_sheets(v3, d, v3.ward))))

\* vdc_combo changes its current text: currentTextChanged runs update_wards
VdcSetText(v, d, text) ==
    IF v.vdc = text THEN Ret(v, "")
    ELSE update_wards([v EXCEPT !.vdc = text], d, text)

\* vdc_combo.clear()
VdcClear(v, d) == VdcSetText([v EXCEPT !.vdcs = <<>>], d, <<>>)

\* vdc_combo.addItems(items) on the cleared combo
VdcAddItems(v, d, items) ==
    IF items = <<>> THEN Ret(v, "")
    ELSE VdcSetText([v EXCEPT !.vdcs = items], d, items[1])

populate_vdcs(v, d) ==
    Seq2(VdcClear(v, d), LAMBDA v1 :
        IF v1.folder = <<>> \/ ~isdir(d, v1.folder) THEN Ret(v1, "")
        ELSE Bind(SubDirs(d, v1.folder), LAMBDA vdcs :
               Seq2(VdcAddItems(v1, d, vdcs), LAMBDA v2 :
                   IF vdcs = <<>> THEN Ret(v2, "")
                   ELSE update_wards(v2, d, vdcs[1]))))

\* BookViewer.__init__ and init_ui for a root folder
NewViewer(d, kind, folder) ==
    populate_vdcs([kind |-> kind, folder |-> folder,
                   vdcs |-> <<>>, vdc |-> <<>>, wards |-> <<>>, ward |-> <<>>,
                   sheets |-> <<>>, sheet |-> <<>>, images |-> <<>>, image |-> <<>>,
                   parcel |-> <<>>], d)

-----------------------------------------------------------------------------
(* BookViewer.search_image *)

\* the loop over os.listdir: the index of the file it stops at (0: none), or
\* the exception int(parcel) raises at the first name the pattern accepts
RECURSIVE ScanOn(_, _, _, _)
ScanOn(names, i, parcel, hit) ==
    IF i > Len(names) THEN [at |-> hit, err |-> ""]
    ELSE LET m == ReMatch(names[i])
         IN  IF ~m.ok THEN ScanOn(names, i + 1, parcel, hit)
             ELSE IF ~IsInt(parcel) THEN [at |-> 0, err |-> "ValueError"]
             ELSE IF int(m.g1) <= int(parcel) /\ int(parcel) <= int(m.g2)
                  THEN ScanOn(names, i + 1, parcel, i)
                  ELSE ScanOn(names, i + 1, parcel, hit)

\* the loop without its break: the last file that contains the parcel wins
Scan_nobreak(names, i, parcel) == ScanOn(names, i, parcel, 0)

\* the loop with each range put in ascending order before the comparison
RECURSIVE Scan_normalised(_, _, _)
Scan_normalised(names, i, parcel) ==
    IF i > Len(names) THEN [at |-> 0, err |-> ""]
    ELSE LET m == ReMatch(names[i])
             lo == IF int(m.g1) <= int(m.g2) THEN int(m.g1) ELSE int(m.g2)
             hi == IF int(m.g1) <= int(m.g2) THEN int(m.g2) ELSE int(m.g1)
         IN  IF ~m.ok THEN Scan_normalised(names, i + 1, parcel)
             ELSE IF ~IsInt(parcel) THEN [at |-> 0, err |-> "ValueError"]
             ELSE IF lo <= int(parcel) /\ int(parcel) <= hi
                  THEN [at |-> i, err |-> ""]
                  ELSE Scan_normalised(names, i + 1, parcel)

RECURSIVE Scan(_, _, _)
Scan(names, i, parcel) ==
    IF i > Len(names) THEN [at |-> 0, err |-> ""]
    ELSE LET m == ReMatch(names[i])
         IN  IF ~m.ok THEN Scan(names, i + 1, parcel)
             ELSE IF ~IsInt(parcel) THEN [at |-> 0, err |-> "ValueError"]
             ELSE IF int(m.g1) <= int(parcel) /\ int(parcel) <= int(m.g2)
                  THEN [at |-> i, err |-> ""]
                  ELSE Scan(names, i + 1, parcel)

\* search_image resolving the four-level path for every selection
SearchDir_fourlevel(v) == Append(Append(Append(v.folder, v.vdc), v.ward), v.sheet)

\* the directory search_image lists
SearchDir(v) ==
    IF v.ward = NoSheet \/ v.ward = <<>>
    THEN Join(v.folder, v.vdc)
    ELSE Join(Join(Join(v.folder, v.vdc), v.ward), v.sheet)

\* what search_image does: outcome "Error" (the fields warning), "opened"
\* (an ImageViewerWindow on dir/file), "Not Found", or the exception raised
search_image(v, d) ==
    LET none == [outcome |-> "Error", dir |-> <<>>, file |-> <<>>]
    IN  IF v.vdc = <<>> \/ v.parcel = <<>> THEN none
        ELSE IF ~isdir(d, SearchDir(v))
             THEN [none EXCEPT !.outcome = "FileNotFoundError"]
             ELSE Bind(listdir(d, SearchDir(v)), LAMBDA names :
                    Bind(Scan(names, 1, v.parcel), LAMBDA r :
                      IF r.err # "" THEN [none EXCEPT !.outcome = r.err]
                      ELSE IF r.at = 0 THEN [none EXCEPT !.outcome = "Not Found"]
                      ELSE [outcome |-> "opened", dir |-> SearchDir(v),
                            file |-> names[r.at]]))

-----------------------------------------------------------------------------
(* The initial directory trees *)

C(s) == <<s>>

\* the file names a leaf directory is filled from
FileNames ==
    { <<"1", "-", "5", ".", "j", "p", "g">>,
      <<"3", "-", "9", ".", "j", "p", "g">>,
      <<"6", "-", "9", ".", "J", "P", "G">> }

\* the sequences of at most n distinct file names: the enumeration orders
RECURSIVE FileLists(_)
FileLists(n) ==
    IF n = 0 THEN {<<>>}
    ELSE LET shorter == FileLists(n - 1)
         IN  shorter \cup
             UNION { { Append(l, f) : f \in {g \in FileNames :
                                               \A i \in 1..Len(l) : l[i] # g} }
                     : l \in shorter }

Root == <<C("R")>>

Files(l) == [i \in 1..Len(l) |-> Ent(l[i], FALSE)]

\* root R with region A (ward 1 with sheets 7, holding the files l, and 8,
\* empty) and region B (the files l directly in it, and ward 2 without sheets)
Tree(l) ==
    LET R == Root
        A == Append(R, C("A"))
        B == Append(R, C("B"))
        A1 == Append(A, C("1"))
    IN  (R :> <<Ent(C("A"), TRUE), Ent(C("B"), TRUE)>>)
        @@ (A :> <<Ent(C("1"), TRUE)>>)
        @@ (A1 :> <<Ent(C("7"), TRUE), Ent(C("8"), TRUE)>>)
        @@ (Append(A1, C("7")) :> Files(l))
        @@ (Append(A1, C("8")) :> <<>>)
        @@ (B :> Files(l) \o <<Ent(C("2"), TRUE)>>)
        @@ (Append(B, C("2")) :> <<>>)

IsPrefix(p, q) == Len(p) <= Len(q) /\ SubSeq(q, 1, Len(p)) = p

\* the tree after rm -r p
Removed(d, p) ==
    LET parent == SubSeq(p, 1, Len(p) - 1)
        keep == {q \in DOMAIN d : ~IsPrefix(p, q)}
    IN  [q \in keep |->
            IF q = parent THEN SelectSeq(d[q], LAMBDA e : e.name # p[Len(p)])
            ELSE d[q]]

\* the directories the environment removes: a sheet directory, a ward and a
\* region that holds images directly
Removable ==
    { <<C("R"), C("A"), C("1"), C("7")>>, <<C("R"), C("A"), C("1")>>, <<C("R"), C("B")>> }

\* the texts the parcel field can hold: QIntValidator(1, 99999) admits digits
\* and, as intermediate inputs, a lone sign and zero
ParcelTexts == { <<"4">>, <<"5">>, <<"6">>, <<"1", "0">>, <<"+">>, <<"0">> }

-----------------------------------------------------------------------------
(* The slots of the BookViewer on screen *)

\* a slot ended: when an exception left it, PyQt aborts the process or, with
\* an excepthook installed or an older PyQt, prints it and goes on
SlotEnds(err) == IF err = "" THEN crashed' = crashed ELSE crashed' \in BOOLEAN

\* the user picks another entry of the VDC combo
SelectVdc(text) ==
    /\ ~crashed /\ bv.kind \in Kinds
    /\ \E i \in 1..Len(bv.vdcs) : bv.vdcs[i] = text
    /\ text # bv.vdc
    /\ \E r \in {VdcSetText(bv, disk, text)} :
           /\ bv' = r.bv
           /\ SlotEnds(r.err)
           /\ last' = ViewResult("update_wards", bv.kind, IF r.err = "" THEN "ok" ELSE r.err)
    /\ UNCHANGED <<config, docVars, disk, win>>

\* the user picks another entry of the ward combo
SelectWard(text) ==
    /\ ~crashed /\ bv.kind \in Kinds
    /\ \E i \in 1..Len(bv.wards) : bv.wards[i] = text
    /\ text # bv.ward
    /\ \E r \in {WardSetText(bv, disk, text)} :
           /\ bv' = r.bv
           /\ SlotEnds(r.err)
           /\ last' = ViewResult("update_sheets", bv.kind, IF r.err = "" THEN "ok" ELSE r.err)
    /\ UNCHANGED <<config, docVars, disk, win>>

\* the user picks another entry of the sheet combo
SelectSheet(text) ==
    /\ ~crashed /\ bv.kind \in Kinds
    /\ \E i \in 1..Len(bv.sheets) : bv.sheets[i] = text
    /\ text # bv.sheet
    /\ \E r \in {SheetSetText(bv, disk, text)} :
           /\ bv' = r.bv
           /\ SlotEnds(r.err)
           /\ last' = ViewResult("update_images", bv.kind, IF r.err = "" THEN "ok" ELSE r.err)
    /\ UNCHANGED <<config, docVars, disk, win>>

\* the user types into parcel_edit
EditParcel(text) ==
    /\ ~crashed /\ bv.kind \in Kinds
    /\ text # bv.parcel
    /\ bv' = [bv EXCEPT !.parcel = text]
    /\ last' = ViewResult("edit_parcel", bv.kind, "ok")
    /\ UNCHANGED <<config, docVars, disk, win, crashed>>

\* the Search button
SearchImage ==
    /\ ~crashed /\ bv.kind \in Kinds
    /\ \E r \in {search_image(bv, disk)} :
       LET err == IF r.outcome \in {"FileNotFoundError", "ValueError"} THEN r.outcome ELSE ""
       IN  /\ win' = IF r.outcome = "opened"
                     THEN [win EXCEPT ![bv.kind] =
                             [open |-> TRUE, dir |-> r.dir, file |-> r.file,
                              meta |-> [vdc |-> bv.vdc, ward |-> bv.ward,
                                        sheet |-> bv.sheet, parcel |-> bv.parcel]]]
                     ELSE win
           /\ SlotEnds(err)
           /\ last' = ViewResult("search_image", bv.kind, r.outcome)
    /\ UNCHANGED <<config, docVars, disk, bv>>

\* the environment removes a directory of the intact tree
RemoveDir(p) ==
    /\ ~crashed
    /\ p \in Removable
    /\ DOMAIN disk = DOMAIN Tree(<<>>)
    /\ disk' = Removed(disk, p)
    /\ last' = ViewResult("rmdir", "none", "ok")
    /\ UNCHANGED <<config, docVars, bv, win, crashed>>

-----------------------------------------------------------------------------
(* Browsing and searching one root folder *)

InitLocate ==
    /\ mgr = [k \in Kinds |-> NewMgr]
    /\ bindFailed = [k \in Kinds |-> FALSE]
    /\ config = [InitConfig EXCEPT !.fieldbook_folder = Root]
    /\ last = InitLast
    /\ disk \in {Tree(l) : l \in FileLists(MaxFiles)}
    /\ bv = NewViewer(disk, "fieldbook", Root).bv
    /\ win = [k \in Kinds |-> NoWindow]
    /\ crashed = FALSE

NextLocate ==
    \/ \E t \in {C("A"), C("B")} : SelectVdc(t)
    \/ \E t \in {C("1"), C("2"), NoSheet} : SelectWard(t)
    \/ \E t \in {C("7"), C("8")} : SelectSheet(t)
    \/ \E t \in ParcelTexts : EditParcel(t)
    \/ SearchImage
    \/ \E p \in Removable : RemoveDir(p)

SpecLocate == InitLocate /\ [][NextLocate]_vars

-----------------------------------------------------------------------------
(* The windows: MainWindow, the BookViewer on screen, the ImageViewerWindows *)

Screen(name) == [NoViewer EXCEPT !.kind = name]

TemplateKey(k) == IF k = "fieldbook" THEN "fieldbook_template" ELSE "plotregister_template"

FolderKey(k) == IF k = "fieldbook" THEN "fieldbook_folder" ELSE "plotregister_folder"

\* what a handler of the windows leaves in last
UiResult(op, k, outcome, doc) ==
    [op |-> op, kind |-> k, outcome |-> outcome, arg |-> "", doc |-> doc,
     pre |-> [op |-> "ui", n |-> 0]]

\* the template files Setup > Load ... Template is pointed at
UiTemplates == {"tA", "tB"}

\* what the footer dialog returns when it is accepted
UiFooters == { [k \in FooterKeys |-> IF k = "miti" THEN "v" ELSE ""] }

\* LoginWidget.try_login with valid credentials
Login ==
    /\ ~crashed /\ bv.kind = "login"
    /\ bv' = Screen("home")
    /\ last' = UiResult("on_login", "none", "ok", NoDoc)
    /\ UNCHANGED <<config, docVars, disk, win, crashed>>

\* MainWindow.show_fieldbook / show_plotregister. The BookViewer it replaces
\* is released, and with it the window its last search opened
ShowBook(k) ==
    /\ ~crashed /\ bv.kind = "home"
    /\ LET folder == config[FolderKey(k)]
       IN  IF folder = <<>> \/ ~isdir(disk, folder)
           THEN /\ last' = UiResult("show_book", k, "Set Folder", NoDoc)
                /\ UNCHANGED <<bv, win, crashed>>
           ELSE \E r \in {NewViewer(disk, k, folder)} :
                /\ bv' = r.bv
                /\ win' = [win EXCEPT ![k] = NoWindow]
                /\ SlotEnds(r.err)
                /\ last' = UiResult("show_book", k, IF r.err = "" THEN "ok" ELSE r.err, NoDoc)
    /\ UNCHANGED <<config, docVars, disk>>

\* what a paste leaves in last: as UiResult, with the number of units the
\* manager held when the paste began
PasteResult(k, outcome) ==
    [UiResult("paste_to_word", k, outcome, NoDoc)
        EXCEPT !.pre = [op |-> "ui", n |-> CountPics(mgr[k].doc.body)]]

\* paste_to_word that binds only a manager that is not loaded
paste_to_word_keep(k, img) ==
    /\ ~crashed /\ win[k].open
    /\ LET template_path == config[TemplateKey(k)]
           rebind == ~is_loaded(mgr[k])
       IN  IF ~img
           THEN /\ last' = PasteResult(k, "Error")
                /\ UNCHANGED <<mgr, bindFailed, crashed>>
           ELSE IF template_path = "" \/ ~IsFile(template_path)
           THEN /\ last' = PasteResult(k, "Template")
                /\ UNCHANGED <<mgr, bindFailed, crashed>>
           ELSE IF rebind /\ ~Readable(template_path)
           THEN /\ last' = PasteResult(k, "PackageNotFoundError")
                /\ bindFailed' = [bindFailed EXCEPT ![k] = TRUE]
                /\ SlotEnds("PackageNotFoundError")
                /\ UNCHANGED mgr
           ELSE LET m1 == IF rebind THEN new_from_template(mgr[k], template_path)
                          ELSE mgr[k]
                IN  /\ mgr' = [mgr EXCEPT ![k] = add_image(m1, win[k].meta)]
                    /\ bindFailed' = IF rebind THEN [bindFailed EXCEPT ![k] = FALSE]
                                     ELSE bindFailed
                    /\ last' = PasteResult(k, "Image Added")
                    /\ UNCHANGED crashed
    /\ UNCHANGED <<config, disk, bv, win>>

\* ImageViewerWindow.paste_to_word of the window of kind k; img: get_pil_image
\* returned an image
paste_to_word(k, img) ==
    /\ ~crashed /\ win[k].open
    /\ LET template_path == config[TemplateKey(k)]
           rebind == ~is_loaded(mgr[k]) \/ mgr[k].loaded_template # template_path
       IN  IF ~img
           THEN /\ last' = PasteResult(k, "Error")
                /\ UNCHANGED <<mgr, bindFailed, crashed>>
           ELSE IF template_path = "" \/ ~IsFile(template_path)
           THEN /\ last' = PasteResult(k, "Template")
                /\ UNCHANGED <<mgr, bindFailed, crashed>>
           ELSE IF rebind /\ ~Readable(template_path)
           THEN /\ last' = PasteResult(k, "PackageNotFoundError")
                /\ bindFailed' = [bindFailed EXCEPT ![k] = TRUE]
                /\ SlotEnds("PackageNotFoundError")
                /\ UNCHANGED mgr
           ELSE LET m1 == IF rebind THEN new_from_template(mgr[k], template_path)
                          ELSE mgr[k]
                IN  /\ mgr' = [mgr EXCEPT ![k] = add_image(m1, win[k].meta)]
                    /\ bindFailed' = IF rebind THEN [bindFailed EXCEPT ![k] = FALSE]
                                     ELSE bindFailed
                    /\ last' = PasteResult(k, "Image Added")
                    /\ UNCHANGED crashed
    /\ UNCHANGED <<config, disk, bv, win>>

\* the Paste button of the window of kind k, while its document holds fewer
\* than MaxPastes units
PasteToWord(k, img) ==
    /\ CountPics(mgr[k].doc.body) < MaxPastes
    /\ paste_to_word(k, img)

\* how far the user and the file system let finalize_doc go: the footer dialog
\* rejected, the save dialog cancelled, Document.save failing, or all done
FinalizeWays == {"rejected", "no path", "OSError", "saved"}

\* BookViewer.finalize_doc (the Save button); info is what the footer dialog
\* returns when accepted
FinalizeDoc(k, way, info) ==
    /\ ~crashed /\ bv.kind = k
    /\ way \in FinalizeWays
    /\ LET dlg == way # "rejected"
           path == way \notin {"rejected", "no path"}
           io == way = "saved"
       IN
       IF ~is_loaded(mgr[k])
       THEN /\ last' = UiResult("finalize_doc", k, "No Document", NoDoc)
            /\ UNCHANGED <<mgr, crashed>>
       ELSE IF ~dlg
       THEN /\ last' = UiResult("finalize_doc", k, "cancelled", NoDoc)
            /\ UNCHANGED <<mgr, crashed>>
       ELSE LET m1 == [mgr[k] EXCEPT !.footer_info = [set |-> TRUE, f |-> info]]
                m2 == insert_footer_to_all_pages(m1, m1.footer_info)
            IN  IF ~path
                THEN /\ mgr' = [mgr EXCEPT ![k] = m1]
                     /\ last' = UiResult("finalize_doc", k, "footer stored", NoDoc)
                     /\ UNCHANGED crashed
                ELSE IF ~io
                THEN /\ mgr' = [mgr EXCEPT ![k] = m2]
                     /\ last' = UiResult("finalize_doc", k, "OSError", NoDoc)
                     /\ SlotEnds("OSError")
                ELSE /\ mgr' = [mgr EXCEPT ![k] = close(m2)]
                     /\ last' = UiResult("finalize_doc", k, "Saved", m2.doc)
                     /\ UNCHANGED crashed
    /\ UNCHANGED <<config, bindFailed, disk, bv, win>>

\* how far print_doc gets: the footer dialog rejected, Document.save failing on
\* the temporary file, the hand-off to the OS raising (os.startfile failing, or
\* the "Unsupported OS" the handler raises itself), or the file handed over
PrintWays == {"rejected", "OSError", "raised", "saved"}

\* print_doc whose handler drops the document when the hand-off to the OS raises
PrintDoc_closing(k, way, info) ==
    /\ ~crashed /\ bv.kind = k
    /\ way \in PrintWays
    /\ LET dlg == way # "rejected"
       IN
       IF ~is_loaded(mgr[k])
       THEN /\ last' = UiResult("print_doc", k, "No Document", NoDoc)
            /\ UNCHANGED <<mgr, crashed>>
       ELSE IF ~mgr[k].footer_info.set /\ ~dlg
       THEN /\ last' = UiResult("print_doc", k, "cancelled", NoDoc)
            /\ UNCHANGED <<mgr, crashed>>
       ELSE LET m1 == IF mgr[k].footer_info.set THEN mgr[k]
                      ELSE [mgr[k] EXCEPT !.footer_info = [set |-> TRUE, f |-> info]]
                m2 == insert_footer_to_all_pages(m1, m1.footer_info)
            IN  IF way = "OSError"
                THEN /\ mgr' = [mgr EXCEPT ![k] = m2]
                     /\ last' = UiResult("print_doc", k, "OSError", NoDoc)
                     /\ SlotEnds("OSError")
                ELSE IF way = "raised"
                THEN /\ mgr' = [mgr EXCEPT ![k] = close(m2)]
                     /\ last' = UiResult("print_doc", k, "Error", m2.doc)
                     /\ UNCHANGED crashed
                ELSE /\ mgr' = [mgr EXCEPT ![k] = m2]
                     /\ last' = UiResult("print_doc", k, "written", m2.doc)
                     /\ UNCHANGED crashed
    /\ UNCHANGED <<config, bindFailed, disk, bv, win>>

\* BookViewer.print_doc (the Print button). The save into the temporary file is
\* outside the try block; what the hand-off raises is caught and shown as the
\* "Error" warning. A tool that starts and exits with a failure status raises
\* nothing and is the outcome "written"
PrintDoc(k, way, info) ==
    /\ ~crashed /\ bv.kind = k
    /\ way \in PrintWays
    /\ LET dlg == way # "rejected"
       IN
       IF ~is_loaded(mgr[k])
       THEN /\ last' = UiResult("print_doc", k, "No Document", NoDoc)
            /\ UNCHANGED <<mgr, crashed>>
       ELSE IF ~mgr[k].footer_info.set /\ ~dlg
       THEN /\ last' = UiResult("print_doc", k, "cancelled", NoDoc)
            /\ UNCHANGED <<mgr, crashed>>
       ELSE LET m1 == IF mgr[k].footer_info.set THEN mgr[k]
                      ELSE [mgr[k] EXCEPT !.footer_info = [set |-> TRUE, f |-> info]]
                m2 == insert_footer_to_all_pages(m1, m1.footer_info)
            IN  /\ mgr' = [mgr EXCEPT ![k] = m2]
                /\ IF way = "OSError"
                   THEN /\ last' = UiResult("print_doc", k, "OSError", NoDoc)
                        /\ SlotEnds("OSError")
                   ELSE IF way = "raised"
                   THEN /\ last' = UiResult("print_doc", k, "Error", m2.doc)
                        /\ UNCHANGED crashed
                   ELSE /\ last' = UiResult("print_doc", k, "written", m2.doc)
                        /\ UNCHANGED crashed
    /\ UNCHANGED <<config, bindFailed, disk, bv, win>>

\* a Back that drops the documents of both kinds
OnBack_both(k) ==
    /\ ~crashed /\ bv.kind = k
    /\ mgr' = [j \in Kinds |-> IF is_loaded(mgr[j]) THEN close(mgr[j]) ELSE mgr[j]]
    /\ bv' = Screen("home")
    /\ last' = UiResult("on_back", k, IF is_loaded(mgr[k]) THEN "closed" ELSE "ok", NoDoc)
    /\ UNCHANGED <<config, bindFailed, disk, win, crashed>>

\* the Back button: BookViewer.handle_back and the on_back of show_fieldbook /
\* show_plotregister
OnBack(k) ==
    /\ ~crashed /\ bv.kind = k
    /\ mgr' = [mgr EXCEPT ![k] = IF is_loaded(mgr[k]) THEN close(mgr[k]) ELSE mgr[k]]
    /\ bv' = Screen("home")
    /\ last' = UiResult("on_back", k, IF is_loaded(mgr[k]) THEN "closed" ELSE "ok", NoDoc)
    /\ UNCHANGED <<config, bindFailed, disk, win, crashed>>

\* a logout that also drops both documents
Logout_closing ==
    /\ ~crashed /\ bv.kind # "login"
    /\ bv' = Screen("login")
    /\ mgr' = [k \in Kinds |-> close(mgr[k])]
    /\ last' = UiResult("logout", "none", "ok", NoDoc)
    /\ UNCHANGED <<config, bindFailed, disk, win, crashed>>

\* File > Logout
Logout ==
    /\ ~crashed /\ bv.kind # "login"
    /\ bv' = Screen("login")
    /\ last' = UiResult("logout", "none", "ok", NoDoc)
    /\ UNCHANGED <<config, docVars, disk, win, crashed>>

\* how far print_fieldbook / print_plotregister get: Document.save failing on
\* the temporary file, the hand-off raising (the tool is missing, os.startfile
\* fails), or the file handed over
MenuWays == {"OSError", "raised", "saved"}

\* File > Print Fieldbook / Print Plot Register. What the hand-off raises is
\* caught and shown as the "Print Error" warning
PrintMenu(k, way) ==
    /\ ~crashed /\ bv.kind # "login"
    /\ way \in MenuWays
    /\ IF ~is_loaded(mgr[k])
       THEN /\ last' = UiResult("print_menu", k, "No Document", NoDoc)
            /\ UNCHANGED <<mgr, crashed>>
       ELSE LET m1 == IF mgr[k].footer_info.set
                      THEN insert_footer_to_all_pages(mgr[k], mgr[k].footer_info)
                      ELSE mgr[k]
            IN  /\ mgr' = [mgr EXCEPT ![k] = m1]
                /\ IF way = "OSError"
                   THEN /\ last' = UiResult("print_menu", k, "OSError", NoDoc)
                        /\ SlotEnds("OSError")
                   ELSE IF way = "raised"
                   THEN /\ last' = UiResult("print_menu", k, "Print Error", m1.doc)
                        /\ UNCHANGED crashed
                   ELSE /\ last' = UiResult("print_menu", k, "written", m1.doc)
                        /\ UNCHANGED crashed
    /\ UNCHANGED <<config, bindFailed, disk, bv, win>>

\* Setup > Load Fieldbook Template / Load Plot Register Template
LoadTemplate(k, path) ==
    /\ ~crashed
    /\ config[TemplateKey(k)] # path
    /\ config' = [config EXCEPT ![TemplateKey(k)] = path]
    /\ last' = UiResult("load_template", k, "Template Loaded", NoDoc)
    /\ UNCHANGED <<docVars, disk, bv, win, crashed>>

-----------------------------------------------------------------------------
(* The program: both managers driven through the windows *)

InitUI ==
    /\ mgr = [k \in Kinds |-> NewMgr]
    /\ bindFailed = [k \in Kinds |-> FALSE]
    /\ config = [fieldbook_template |-> "tA", plotregister_template |-> "tA",
                 fieldbook_folder |-> Root, plotregister_folder |-> Root]
    /\ last = InitLast
    /\ disk = Tree(<< <<"1", "-", "5", ".", "j", "p", "g">> >>)
    /\ bv = Screen("login")
    /\ win = [k \in Kinds |-> NoWindow]
    /\ crashed = FALSE

NextUI ==
    \/ Login
    \/ \E k \in Kinds : ShowBook(k)
    \/ EditParcel(<<"4">>)
    \/ SearchImage
    \/ \E k \in Kinds, img \in BOOLEAN : PasteToWord(k, img)
    \/ \E k \in Kinds, way \in FinalizeWays, info \in UiFooters :
          FinalizeDoc(k, way, info)
    \/ \E k \in Kinds, way \in PrintWays, info \in UiFooters :
          PrintDoc(k, way, info)
    \/ \E k \in Kinds : OnBack(k)
    \/ Logout
    \/ \E k \in Kinds, way \in MenuWays : PrintMenu(k, way)
    \/ \E k \in Kinds, path \in UiTemplates : LoadTemplate(k, path)

SpecUI == InitUI /\ [][NextUI]_vars

-----------------------------------------------------------------------------
(* One file name at a time: the names the pattern is tried on *)

GenNames ==
    { pre \o d1 \o sep \o d2 \o <<".">> \o ext \o suf :
        pre \in {<<>>, <<"a">>},
        d1 \in {<<"1">>, <<"0", "1">>, <<"9">>, <<>>},
        sep \in {<<"-">>, <<>>},
        d2 \in {<<"5">>, <<"0", "5">>, <<"x">>},
        ext \in {<<"j", "p", "g">>, <<"J", "p", "G">>, <<"j", "p", "e", "g">>,
                 <<"p", "n", "g">>},
        suf \in {<<>>, <<"x">>, <<".", "b", "a", "k">>} }

InitDecode ==
    /\ mgr = [k \in Kinds |-> NewMgr]
    /\ bindFailed = [k \in Kinds |-> FALSE]
    /\ config = [InitConfig EXCEPT !.fieldbook_folder = Root]
    /\ last = InitLast
    /\ disk \in {Tree(<<f>>) : f \in GenNames}
    /\ bv = NewViewer(disk, "fieldbook", Root).bv
    /\ win = [k \in Kinds |-> NoWindow]
    /\ crashed = FALSE

NextDecode ==
    \/ \E t \in {C("A"), C("B")} : SelectVdc(t)
    \/ \E t \in {C("2"), NoSheet} : SelectWard(t)
    \/ \E t \in {<<"4">>, <<"7">>} : EditParcel(t)
    \/ SearchImage

SpecDecode == InitDecode /\ [][NextDecode]_vars

-----------------------------------------------------------------------------
(* Lookup *)

IsDigits(s) == s # <<>> /\ \A i \in 1..Len(s) : s[i] \in Digits

\* the file's range, as the viewer decodes it, contains n
Contains(f, n) ==
    ReMatch(f).ok /\ int(ReMatch(f).g1) <= n /\ n <= int(ReMatch(f).g2)

\* the index of the first name whose range contains n (0: none)
FirstContaining(names, n) ==
    IF \E i \in 1..Len(names) : Contains(names[i], n)
    THEN CHOOSE i \in 1..Len(names) :
            /\ Contains(names[i], n)
            /\ \A j \in 1..(i - 1) : ~Contains(names[j], n)
    ELSE 0

\* a search with a region selected and a decimal parcel number typed
Searched ==
    /\ last.op = "search_image"
    /\ bv.vdc # <<>>
    /\ IsDigits(bv.parcel)

\* C1: a search over an existing leaf directory opens the first file, in
\* enumeration order, whose range [low, high] contains the parcel (both ends
\* included), and reports Not Found when there is none
C1_FirstMatch ==
    (Searched /\ isdir(disk, SearchDir(bv))) =>
        LET names == listdir(disk, SearchDir(bv))
            i == FirstContaining(names, int(bv.parcel))
        IN  IF i = 0 THEN last.outcome = "Not Found"
            ELSE /\ last.outcome = "opened"
                 /\ win[bv.kind].open
                 /\ win[bv.kind].dir = SearchDir(bv)
                 /\ win[bv.kind].file = names[i]

\* C1 witness: "1-5.jpg" enumerated before "3-9.jpg", parcel 4, "1-5.jpg" opened
C1_Witness ==
    /\ Searched /\ isdir(disk, SearchDir(bv))
    /\ listdir(disk, SearchDir(bv)) = << <<"1", "-", "5", ".", "j", "p", "g">>,
                                         <<"3", "-", "9", ".", "j", "p", "g">> >>
    /\ bv.parcel = <<"4">>
    /\ last.outcome = "opened"
    /\ win[bv.kind].file = <<"1", "-", "5", ".", "j", "p", "g">>

\* C1 witness for an end of the range: parcel 5 is found in "1-5.jpg"
C1_WitnessHigh ==
    /\ Searched /\ bv.parcel = <<"5">> /\ last.outcome = "opened"
    /\ win[bv.kind].file = <<"1", "-", "5", ".", "j", "p", "g">>

\* C2: a search whose leaf directory is absent or empty, or holds no file
\* whose range contains the parcel, ends in Not Found and raises nothing
C2_AbsentIsNotFound ==
    ( /\ Searched
      /\ \/ ~isdir(disk, SearchDir(bv))
         \/ FirstContaining(listdir(disk, SearchDir(bv)), int(bv.parcel)) = 0 )
    => last.outcome = "Not Found"

\* the whole name matches ^(\d+)-(\d+)\.(jpg|jpeg)$, the extension in any case
FullPattern(f) ==
    \E a \in 1..Len(f), b \in 1..Len(f) :
        /\ a >= 2 /\ f[a] = "-" /\ \A i \in 1..(a - 1) : f[i] \in Digits
        /\ b >= a + 2 /\ f[b] = "." /\ \A i \in (a + 1)..(b - 1) : f[i] \in Digits
        /\ [i \in 1..(Len(f) - b) |-> Lower(f[b + i])]
              \in {<<"j", "p", "g">>, <<"j", "p", "e", "g">>}

\* C3: a name is listed as an image, counts as a direct image for the
\* "(No Sheet)" entry and can be opened by a search if and only if the whole
\* name matches the range pattern
C3_WholeNamePattern ==
    LET region == Join(bv.folder, bv.vdc)
        names == listdir(disk, region)
    IN  (bv.vdc # <<>> /\ isdir(disk, region)) =>
          /\ (\E i \in 1..Len(bv.wards) : bv.wards[i] = NoSheet)
                <=> (\E i \in 1..Len(names) : FullPattern(names[i]))
          /\ bv.ward = NoSheet => bv.images = SelectSeq(names, FullPattern)
          /\ (last.op = "search_image" /\ last.outcome = "opened")
                => FullPattern(win[bv.kind].file)

-----------------------------------------------------------------------------
(* Pagination *)

PageBreak == El("pb", <<>>, -1, FALSE)

Captions(body) == SelectSeq(body, LAMBDA e : e.t = "cap")

CountBreaks(body) == Len(SelectSeq(body, LAMBDA e : e.t = "pb"))

\* the units of caps laid out from unit i on, a page break before each unit
\* 3k+1 (k >= 1)
RECURSIVE Layout(_, _)
Layout(caps, i) ==
    IF i > Len(caps) THEN <<>>
    ELSE (IF i > 1 /\ (i - 1) % 3 = 0 THEN <<PageBreak>> ELSE <<>>)
           \o <<caps[i], El("pic", <<>>, -1, TRUE)>> \o Layout(caps, i + 1)

\* C4: in every reachable state the per-page counter lies in
\* 0..max_images_per_page, and an add_image called with the counter at
\* max_images_per_page appends a page break and then the unit, leaving the
\* counter at 1 (reset to 0, then incremented)
C4_CounterBounded ==
    /\ [](\A k \in Kinds : mgr[k].images_on_page \in 0..max_images_per_page)
    /\ [][\A k \in Kinds :
            ( /\ mgr[k].images_on_page = max_images_per_page
              /\ last'.op = "add_image" /\ last'.kind = k /\ last'.outcome = "ok"
              /\ mgr'[k] # mgr[k] )
            => LET old == mgr[k].doc.body
                   new == mgr'[k].doc.body
               IN  /\ Len(new) = Len(old) + 3
                   /\ SubSeq(new, 1, Len(old)) = old
                   /\ new[Len(old) + 1] = PageBreak
                   /\ new[Len(old) + 2].t = "cap"
                   /\ new[Len(old) + 3].t = "pic"
                   /\ mgr'[k].images_on_page = 1]_vars

\* C4 witness: an image was added to a full page
C4_Witness ==
    /\ last.op = "add_image" /\ last.outcome = "ok" /\ last.pre.n = 3
    /\ mgr["fieldbook"].images_on_page = 1
    /\ CountBreaks(mgr["fieldbook"].doc.body) = 1

\* C5: a document holding n >= 1 units added since its bind is the template's
\* body followed by the units with a page break before each unit 3k+1, has
\* floor((n-1)/3) page breaks, and its counter is ((n-1) mod 3) + 1
C5_Pagination ==
    \A k \in Kinds :
        LET m == mgr[k]
            n == CountPics(m.doc.body)
        IN  (is_loaded(m) /\ n >= 1) =>
              /\ m.doc.body = TemplateDoc(m.loaded_template).body
                                 \o Layout(Captions(m.doc.body), 1)
              /\ CountBreaks(m.doc.body) = (n - 1) \div 3
              /\ m.images_on_page = ((n - 1) % 3) + 1

\* C5 witness: four units, one page break, counter 1
C5_Witness ==
    LET m == mgr["fieldbook"]
    IN  /\ CountPics(m.doc.body) = 4
        /\ CountBreaks(m.doc.body) = 1
        /\ m.doc.body[Len(m.doc.body) - 2] = PageBreak
        /\ m.images_on_page = 1

\* C5 witness for the second break: seven units, two page breaks
C5_WitnessSeven ==
    /\ CountPics(mgr["fieldbook"].doc.body) = 7
    /\ CountBreaks(mgr["fieldbook"].doc.body) = 2

\* C6 as stated: add_image on an unbound manager ends in a dedicated
\* NotBoundError and leaves the manager unchanged
C6_Original ==
    [][\A k \in Kinds :
         (~is_loaded(mgr[k]) /\ last'.op = "add_image" /\ last'.kind = k)
         => (last'.outcome = "NotBoundError" /\ mgr' = mgr)]_vars

\* C6 amended: add_image on an unbound manager (never bound, or closed) fails
\* with the AttributeError of reading the unset section, before anything is
\* inserted, and leaves document, counter, footer and bound template unchanged
C6_UnboundAddFails ==
    [][\A k \in Kinds :
         (~is_loaded(mgr[k]) /\ last'.op = "add_image" /\ last'.kind = k)
         => (last'.outcome = "AttributeError" /\ mgr' = mgr)]_vars

\* C6 witness: add_image was called on a closed manager
C6_Witness ==
    /\ last.op = "add_image" /\ last.outcome = "AttributeError"
    /\ last.pre.op = "close"
    /\ mgr["fieldbook"] = NewMgr

\* C7: after a successful new_from_template(path) the manager is loaded with
\* the template's content, holds no unit, has counter 0, no footer fields and
\* loaded_template = path, whatever it held before
C7_BindFresh ==
    \A k \in Kinds :
        (last.op = "new_from_template" /\ last.kind = k /\ last.outcome = "ok")
        => /\ is_loaded(mgr[k])
           /\ mgr[k].doc = TemplateDoc(last.arg)
           /\ CountPics(mgr[k].doc.body) = 0
           /\ mgr[k].images_on_page = 0
           /\ mgr[k].footer_info = NoFooter
           /\ mgr[k].loaded_template = last.arg

\* C7 witness: a bind replaced a document that held units
C7_Witness ==
    /\ last.op = "new_from_template" /\ last.outcome = "ok"
    /\ last.pre.n >= 2
    /\ mgr["fieldbook"].loaded_template = "tB"

\* C8 as stated: once a new_from_template has failed, every add_image on that
\* manager is rejected until a later new_from_template succeeds
C8_Original ==
    \A k \in Kinds :
        (bindFailed[k] /\ last.op = "add_image" /\ last.kind = k)
        => last.outcome # "ok"

\* C8 amended: a failed new_from_template leaves the manager exactly as it
\* was, so until a bind succeeds add_image is rejected if the manager is
\* unbound and accepted if it is still loaded with an earlier template
C8_FailedBindKeepsState ==
    /\ [][\A k \in Kinds :
            (last'.op = "new_from_template" /\ last'.kind = k /\ last'.outcome # "ok")
            => mgr' = mgr]_vars
    /\ [](\A k \in Kinds :
            (bindFailed[k] /\ last.op = "add_image" /\ last.kind = k)
            => /\ last.outcome = "ok" <=> is_loaded(mgr[k])
               /\ is_loaded(mgr[k]) => mgr[k].loaded_template \in {"tA", "tB"})

\* C8 witness: add_image was accepted by a manager whose latest bind failed
C8_Witness ==
    /\ bindFailed["fieldbook"]
    /\ last.op = "add_image" /\ last.outcome = "ok"
    /\ is_loaded(mgr["fieldbook"])

\* C8 witness: add_image was rejected by a manager that never bound
C8_WitnessUnbound ==
    /\ bindFailed["fieldbook"]
    /\ last.op = "add_image" /\ last.outcome = "AttributeError"
    /\ last.pre.op = "new_from_template"

\* C9 as stated: a loaded manager becomes unloaded only in the finalize_doc
\* that has just saved it
C9_Original ==
    [][\A k \in Kinds :
         (is_loaded(mgr[k]) /\ ~is_loaded(mgr'[k]))
         => (last'.op = "finalize_doc" /\ last'.kind = k /\ last'.outcome = "Saved")]_vars

\* C9 amended: a loaded manager becomes unloaded only in the finalize_doc that
\* has just saved it, or by Back of the viewer of its kind, which closes it
\* without saving; a finalize_doc that saved leaves the manager unloaded
C9_CloseAfterSaveOrBack ==
    /\ [][\A k \in Kinds :
            (is_loaded(mgr[k]) /\ ~is_loaded(mgr'[k]))
            => \/ /\ last'.op = "finalize_doc" /\ last'.kind = k
                  /\ last'.outcome = "Saved"
                  /\ last'.doc.body = mgr[k].doc.body
               \/ /\ last'.op = "on_back" /\ last'.kind = k
                  /\ last'.outcome = "closed" /\ last'.doc = NoDoc]_vars
    /\ []((last.op = "finalize_doc" /\ last.outcome = "Saved")
            => mgr[last.kind] = NewMgr)

\* C9 witness: Back closed a loaded document without saving it
C9_Witness ==
    /\ last.op = "on_back" /\ last.outcome = "closed"
    /\ mgr[last.kind] = NewMgr

\* C9 witness: finalize_doc saved a document that held a unit and closed it
C9_WitnessSaved ==
    /\ last.op = "finalize_doc" /\ last.outcome = "Saved"
    /\ CountPics(last.doc.body) >= 1
    /\ mgr[last.kind] = NewMgr

\* the footer of sections[0] one save leaves in a freshly bound document
SingleSaveFooter(m) ==
    insert_footer_to_all_pages(new_from_template(NewMgr, m.loaded_template),
                               m.footer_info).doc.footers[1]

\* C10: after any number of saves with footer fields stored, the footer of
\* sections[0] holds exactly one sentence paragraph and one signature table and
\* equals the footer a single save produces
C10_SaveIdempotent ==
    \A k \in Kinds :
        ( /\ last.op = "save" /\ last.kind = k /\ last.outcome \in {"ok", "OSError"}
          /\ mgr[k].footer_info.set )
        => LET f == mgr[k].doc.footers[1]
           IN  /\ Len(SelectSeq(f, LAMBDA e : e.t = "p")) = 1
               /\ Len(SelectSeq(f, LAMBDA e : e.t = "tbl")) = 1
               /\ f = SingleSaveFooter(mgr[k])
               /\ last.outcome = "ok" => last.doc = mgr[k].doc

\* C10 witness: a save directly after a save, footer fields stored
C10_Witness ==
    /\ last.op = "save" /\ last.outcome = "ok" /\ last.pre.op = "save"
    /\ mgr["fieldbook"].footer_info.set
    /\ mgr["fieldbook"].loaded_template = "tB"

-----------------------------------------------------------------------------
(* The body a manager builds from units with different captions *)

NextBody ==
    \/ \E path \in {"tA", "tB"} : NewFromTemplate("fieldbook", path)
    \/ \E meta \in BodyMetas : AddImage("fieldbook", meta)

SpecBody == InitDoc /\ [][NextBody]_vars

-----------------------------------------------------------------------------
(* get_footer_line on every footer_info *)

\* the dicts footer_info can hold: each key absent, empty or filled
FooterDicts ==
    UNION { [D -> {"", "v"}] : D \in SUBSET FooterKeys }

InitFooter ==
    /\ mgr \in { [k \in Kinds |-> IF k = "fieldbook"
                                  THEN [NewMgr EXCEPT !.footer_info = fi]
                                  ELSE NewMgr] :
                 fi \in {NoFooter} \cup {[set |-> TRUE, f |-> g] : g \in FooterDicts} }
    /\ bindFailed = [k \in Kinds |-> FALSE]
    /\ config = InitConfig
    /\ last = InitLast
    /\ disk = [p \in {} |-> <<>>]
    /\ bv = NoViewer
    /\ win = [k \in Kinds |-> NoWindow]
    /\ crashed = FALSE

\* get_footer_line()
GetFooterLine(k) ==
    /\ last.op = "init"
    /\ last' = Result("get_footer_line", k, "ok", get_footer_line(mgr[k]), NoDoc)
    /\ UNCHANGED <<mgr, config, bindFailed, viewVars>>

NextFooter == GetFooterLine("fieldbook")

SpecFooter == InitFooter /\ [][NextFooter]_vars

-----------------------------------------------------------------------------
(* to_nepali_number and the caption on every short text *)

\* the characters of a text: the ten digits, a letter, a space and a
\* Devanagari digit
TextChars == Digits \cup {"W", " ", "n3"}

RECURSIVE Texts(_)
Texts(n) ==
    IF n = 0 THEN {<<>>}
    ELSE Texts(n - 1) \cup { Append(t, c) : t \in Texts(n - 1), c \in TextChars }

\* the window whose selection is captioned holds the text as its ward
InitNumeral ==
    /\ mgr = [k \in Kinds |-> NewMgr]
    /\ bindFailed = [k \in Kinds |-> FALSE]
    /\ config = InitConfig
    /\ last = InitLast
    /\ disk = [p \in {} |-> <<>>]
    /\ bv = NoViewer
    /\ win \in { [k \in Kinds |->
                    IF k = "fieldbook"
                    THEN [open |-> TRUE, dir |-> <<>>, file |-> <<>>,
                          meta |-> [vdc |-> <<"A", "1">>, ward |-> t,
                                    sheet |-> <<"7">>, parcel |-> <<"1", "0">>]]
                    ELSE NoWindow] : t \in Texts(MaxText) }
    /\ crashed = FALSE

\* to_nepali_number(ward)
ToNepaliNumber ==
    /\ last.op = "init"
    /\ last' = [InitLast EXCEPT !.op = "to_nepali_number",
                                !.arg = to_nepali_number(win["fieldbook"].meta.ward)]
    /\ UNCHANGED <<mgr, config, bindFailed, viewVars>>

\* the meta_text add_image builds
Caption ==
    /\ last.op = "init"
    /\ last' = [InitLast EXCEPT !.op = "meta_text",
                                !.arg = meta_text(win["fieldbook"].meta)]
    /\ UNCHANGED <<mgr, config, bindFailed, viewVars>>

NextNumeral == ToNepaliNumber \/ Caption

SpecNumeral == InitNumeral /\ [][NextNumeral]_vars

-----------------------------------------------------------------------------
(* The footer *)

\* the paragraphs and tables of a footer, in order
Blocks(f) == SelectSeq(f, LAMBDA e : e.t \in {"p", "tbl"})

\* f holds, as its only paragraph and table, a centred sentence followed by
\* the three-column signature table
IsGeneratedBlock(f) ==
    /\ Len(Blocks(f)) = 2
    /\ Blocks(f)[1].t = "p" /\ Blocks(f)[1].a = 1 /\ Len(Blocks(f)[1].x) = 11
    /\ Blocks(f)[2].t = "tbl" /\ Len(Blocks(f)[2].x) = 3

\* C11: a save that wrote the file wrote the generated footer block into the
\* document if footer fields were stored since the bind, all-empty fields
\* included, and otherwise serialised the document with every footer of the
\* template as loaded
C11_FooterIffSet ==
    \A k \in Kinds :
        (last.op = "save" /\ last.kind = k /\ last.outcome = "ok")
        => /\ last.doc = mgr[k].doc
           /\ IF mgr[k].footer_info.set
              THEN IsGeneratedBlock(last.doc.footers[1])
              ELSE last.doc.footers = TemplateDoc(mgr[k].loaded_template).footers

\* C11 witness: a document holding units was saved with no footer fields stored
C11_Witness ==
    /\ last.op = "save" /\ last.outcome = "ok" /\ last.pre.n >= 1
    /\ ~mgr["fieldbook"].footer_info.set
    /\ last.doc.footers = TemplateDoc("tB").footers

\* C11 witness: a document was saved with all five stored fields empty
C11_WitnessEmptyFields ==
    /\ last.op = "save" /\ last.outcome = "ok"
    /\ mgr["fieldbook"].footer_info = [set |-> TRUE, f |-> [k \in FooterKeys |-> ""]]
    /\ IsGeneratedBlock(last.doc.footers[1])

\* C12: after a save with footer fields stored, the footer of every section of
\* the written document is the generated block
C12_EverySectionFooter ==
    \A k \in Kinds :
        (last.op = "save" /\ last.kind = k /\ last.outcome = "ok"
           /\ mgr[k].footer_info.set)
        => \A i \in 1..Len(last.doc.footers) :
              /\ IsGeneratedBlock(last.doc.footers[i])
              /\ Blocks(last.doc.footers[i]) = Blocks(last.doc.footers[1])

\* the slots of the sentence: position, field and placeholder run
Slots ==
    { [at |-> 2, key |-> "patra_pathaune", dots |-> "dots20"],
      [at |-> 4, key |-> "chan_dan", dots |-> "dots7"],
      [at |-> 6, key |-> "miti", dots |-> "dots13"],
      [at |-> 8, key |-> "prayojan", dots |-> "dots15"],
      [at |-> 10, key |-> "rasid_no", dots |-> "dots21"] }

DotRuns == {sl.dots : sl \in Slots}

\* C13: each slot of the footer sentence shows its field's value when that is
\* non-empty and the slot's dotted run when the field is empty or absent, also
\* with no footer_info stored; the fixed words lie between the slots
C13_FooterPerField ==
    last.op = "get_footer_line"
    => LET fi == mgr["fieldbook"].footer_info
           line == last.arg
           filled(key) == fi.set /\ key \in DOMAIN fi.f /\ fi.f[key] # ""
       IN  /\ Len(line) = 11
           /\ \A sl \in Slots :
                 line[sl.at] = IF filled(sl.key) THEN fi.f[sl.key] ELSE sl.dots
           /\ \A i \in {1, 3, 5, 7, 9, 11} : line[i] \notin DotRuns \cup {"", "v"}
           /\ (\A sl \in Slots : ~filled(sl.key))
                 => Cardinality({i \in 1..11 : line[i] \in DotRuns}) = 5
           /\ (\A sl \in Slots : filled(sl.key))
                 => \A i \in 1..11 : line[i] \notin DotRuns

\* C13 witness: a sentence with some fields filled, one empty and one absent
C13_Witness ==
    /\ last.op = "get_footer_line"
    /\ mgr["fieldbook"].footer_info.set
    /\ DOMAIN mgr["fieldbook"].footer_info.f = FooterKeys \ {"miti"}
    /\ mgr["fieldbook"].footer_info.f["chan_dan"] = ""
    /\ last.arg[2] = "v" /\ last.arg[4] = "dots7" /\ last.arg[6] = "dots13"

\* C13 witness: the sentence with no footer_info stored
C13_WitnessNone ==
    /\ last.op = "get_footer_line"
    /\ ~mgr["fieldbook"].footer_info.set
    /\ last.arg[2] = "dots20"

\* s is a run of units: each a caption directly followed by its picture, both
\* marked keep-with-next, a page break only directly after a picture and
\* directly before the next caption
RECURSIVE UnitsOnly(_)
UnitsOnly(s) ==
    \/ s = <<>>
    \/ /\ Len(s) >= 2
       /\ s[1].t = "cap" /\ s[1].kwn /\ s[2].t = "pic" /\ s[2].kwn
       /\ \/ UnitsOnly(SubSeq(s, 3, Len(s)))
          \/ /\ Len(s) >= 5 /\ s[3].t = "pb"
             /\ UnitsOnly(SubSeq(s, 4, Len(s)))

\* the part of a manager's body that follows the template's own content
Added(m) ==
    SubSeq(m.doc.body, Len(TemplateDoc(m.loaded_template).body) + 1, Len(m.doc.body))

\* C14: what follows the template's content in the body is a run of units,
\* caption first, page breaks only between units, both paragraphs marked
\* keep-with-next; each accepted add_image keeps what the body held and ends
\* it with the caption of the added unit and its picture
C14_BodyInOrder ==
    /\ [](is_loaded(mgr["fieldbook"]) => UnitsOnly(Added(mgr["fieldbook"])))
    /\ [][(last'.op = "add_image" /\ last'.outcome = "ok" /\ last' # last)
            => LET b == mgr["fieldbook"].doc.body
                   c == mgr'["fieldbook"].doc.body
               IN  /\ Len(c) \in {Len(b) + 2, Len(b) + 3}
                   /\ SubSeq(c, 1, Len(b)) = b
                   /\ c[Len(c) - 1].t = "cap"
                   /\ c[Len(c) - 1].x = meta_text(last'.arg)
                   /\ c[Len(c)].t = "pic"
                   /\ Len(c) = Len(b) + 3 => c[Len(b) + 1].t = "pb"]_vars

\* C14 witness: four units with two different captions, the page break
\* between the third and the fourth
C14_Witness ==
    LET a == Added(mgr["fieldbook"])
    IN  /\ is_loaded(mgr["fieldbook"])
        /\ Len(a) = 9 /\ a[7].t = "pb"
        /\ a[1].x # a[3].x /\ a[8].x = a[1].x

\* the parcel text is a positive integer in 1..99999
ValidParcel(t) == IsDigits(t) /\ t # <<>> /\ Decimal(t) >= 1 /\ Decimal(t) <= 99999

\* C15: a search whose parcel text is not an integer in 1..99999, or whose
\* region, subregion or (outside the direct-region branch) sheet is missing,
\* ends with the fields warning, before any directory is listed
C15_RejectedBeforeLookup ==
    last.op = "search_image"
    => ( ( \/ ~ValidParcel(bv.parcel)
           \/ bv.vdc = <<>> \/ bv.ward = <<>>
           \/ (bv.ward # NoSheet /\ bv.sheet = <<>>) )
         => last.outcome = "Error" )

\* the Devanagari digit of each decimal digit
Glyph ==
    [d \in Digits |->
        CASE d = "0" -> "n0" [] d = "1" -> "n1" [] d = "2" -> "n2" [] d = "3" -> "n3"
          [] d = "4" -> "n4" [] d = "5" -> "n5" [] d = "6" -> "n6" [] d = "7" -> "n7"
          [] d = "8" -> "n8" [] d = "9" -> "n9"]

\* out is t with each decimal digit replaced by its glyph, nothing else changed
Substituted(t, out) ==
    /\ Len(out) = Len(t)
    /\ \A i \in 1..Len(t) :
          out[i] = IF t[i] \in Digits THEN Glyph[t[i]] ELSE t[i]

\* C16: to_nepali_number replaces each decimal digit by its own Devanagari
\* digit, ten distinct glyphs none of them a decimal digit, and leaves every
\* other character, the length and the order as they were; a caption holds
\* the region verbatim and ward, sheet and parcel substituted
C16_NumeralSubstitution ==
    LET meta == win["fieldbook"].meta
    IN  /\ Cardinality({Glyph[d] : d \in Digits}) = 10
        /\ {Glyph[d] : d \in Digits} \cap Digits = {}
        /\ last.op = "to_nepali_number" => Substituted(meta.ward, last.arg)
        /\ last.op = "meta_text"
           => /\ Substituted(meta.ward, SubSeq(last.arg, 5, 4 + Len(meta.ward)))
              /\ last.arg = <<"VDC: ">> \o meta.vdc \o <<" | Ward: ">>
                              \o SubSeq(last.arg, 5, 4 + Len(meta.ward))
                              \o <<" | Sheet: ", Glyph["7"], " | Parcel: ",
                                    Glyph["1"], Glyph["0"]>>

\* C16 witness: a text mixing a digit and a letter was substituted
C16_Witness ==
    /\ last.op = "to_nepali_number"
    /\ win["fieldbook"].meta.ward = <<"W", "9">>
    /\ last.arg = <<"W", "n9">>

\* C16 witness: a caption whose region name holds a digit
C16_WitnessCaption ==
    /\ last.op = "meta_text"
    /\ win["fieldbook"].meta.ward = <<"1", "2">>
    /\ last.arg[2] = "A" /\ last.arg[3] = "1" /\ last.arg[5] = "n1"

\* the decimal value of a run of digits, leading zeros included
RECURSIVE ValueOf(_)
ValueOf(s) ==
    IF s = <<>> THEN 0
    ELSE DigitValue(Head(s)) * 10^(Len(s) - 1) + ValueOf(Tail(s))

\* low and high of a name that matches the whole-name pattern: the digits
\* before the hyphen and those between the hyphen and the dot
Low(f) == ValueOf(SubSeq(f, 1, (CHOOSE a \in 1..Len(f) : f[a] = "-") - 1))

High(f) ==
    ValueOf(SubSeq(f, (CHOOSE a \in 1..Len(f) : f[a] = "-") + 1,
                      (CHOOSE b \in 1..Len(f) : f[b] = ".") - 1))

\* the files of the directory the search lists
SearchedFiles ==
    LET fs == SelectSeq(disk[SearchDir(bv)], LAMBDA e : ~e.dir)
    IN  [i \in 1..Len(fs) |-> fs[i].name]

\* C17: a search over a directory whose one file matches the whole-name
\* pattern opens it exactly when low <= parcel <= high, low and high being the
\* two digit groups read as decimal numbers in file order: leading zeros and
\* the case of the extension change nothing, and a name with low > high
\* contains no parcel
C17_DecodeExact ==
    ( /\ Searched /\ isdir(disk, SearchDir(bv))
      /\ Len(SearchedFiles) = 1 /\ FullPattern(SearchedFiles[1]) )
    => LET f == SearchedFiles[1]
           n == ValueOf(bv.parcel)
       IN  /\ last.outcome \in {"opened", "Not Found"}
           /\ last.outcome = "opened" <=> (Low(f) <= n /\ n <= High(f))
           /\ last.outcome = "opened" => win[bv.kind].file = f
           /\ Low(f) > High(f) => last.outcome = "Not Found"

\* C17 witness: leading zeros and an upper-case extension, parcel 4 found
C17_Witness ==
    /\ Searched /\ last.outcome = "opened" /\ bv.parcel = <<"4">>
    /\ win[bv.kind].file = <<"0", "1", "-", "0", "5", ".", "J", "p", "G">>

\* C17 witness: low > high, parcel 7 between the two numbers, not found
C17_WitnessReversed ==
    /\ Searched /\ isdir(disk, SearchDir(bv)) /\ bv.parcel = <<"7">>
    /\ Len(SearchedFiles) = 1
    /\ SearchedFiles[1] = <<"9", "-", "5", ".", "j", "p", "g">>
    /\ last.outcome = "Not Found"

\* the names of the files directly in directory p that match the whole-name
\* pattern, in enumeration order
DirectImages(p) ==
    LET fs == SelectSeq(disk[p], LAMBDA e : ~e.dir /\ FullPattern(e.name))
    IN  [i \in 1..Len(fs) |-> fs[i].name]

\* C18: update_wards on an existing region lists its subdirectories followed
\* by "(No Sheet)", present exactly when the region directly holds a file
\* matching the range pattern; with "(No Sheet)" selected the sheet list is
\* empty and the file list is that of the region directory
C18_SentinelIffDirectImage ==
    LET region == Join(bv.folder, bv.vdc)
    IN  ( /\ last.op \in {"update_wards", "update_sheets"} /\ last.outcome = "ok"
          /\ bv.vdc # <<>> /\ isdir(disk, region) )
        => /\ last.op = "update_wards"
              => bv.wards = SubDirs(disk, region)
                              \o (IF DirectImages(region) # <<>> THEN <<NoSheet>> ELSE <<>>)
           /\ bv.ward = NoSheet
              => /\ bv.sheets = <<>>
                 /\ bv.images = DirectImages(region)

\* the directory a listing handler enumerates for the viewer's selection
\* (populate_vdcs the root, update_wards the region, update_sheets the ward)
ListedPath ==
    CASE last.op = "update_wards" -> Join(bv.folder, bv.vdc)
      [] last.op = "update_sheets" ->
            IF bv.ward = NoSheet THEN Join(bv.folder, bv.vdc)
            ELSE Join(Join(bv.folder, bv.vdc), bv.ward)
      [] OTHER -> bv.folder

\* C19: a listing handler (update_wards, update_sheets, update_images) raises
\* nothing, and when the directory it would enumerate does not exist the list
\* it fills is empty
C19_MissingPathIsEmpty ==
    last.op \in {"update_wards", "update_sheets", "update_images"}
    => /\ last.outcome = "ok"
       /\ (last.op = "update_wards" /\ ~isdir(disk, ListedPath)) => bv.wards = <<>>
       /\ (last.op = "update_sheets" /\ ~isdir(disk, ListedPath))
             => (bv.sheets = <<>> /\ bv.images = <<>>)

\* the leaf directory update_images resolves for a selection
ListLeaf(v) ==
    IF v.ward = NoSheet \/ v.sheet = NoSheet
    THEN Join(v.folder, v.vdc)
    ELSE Join(Join(Join(v.folder, v.vdc), v.ward), v.sheet)

C20_WitnessSheet ==
    /\ last.op = "search_image" /\ last.outcome = "opened"
    /\ bv.ward = C("1") /\ bv.sheet = C("7")
    /\ win[bv.kind].dir = <<C("R"), C("A"), C("1"), C("7")>>

-----------------------------------------------------------------------------
(* C21: a hand-off to the OS that raises *)

\* the handlers that save into a temporary file and hand it to the OS
PrintOps == {"print_doc", "print_menu"}

\* the warnings the handlers show for a hand-off that raised
HandOffWarnings == {"Error", "Print Error"}

C21_WitnessMenu ==
    /\ last.op = "print_menu" /\ last.outcome = "Print Error"
    /\ ~crashed
    /\ CountPics(mgr[last.kind].doc.body) >= 1

-----------------------------------------------------------------------------
(* Changing the root folder: two roots on the disk *)

Root2 == <<C("S")>>

\* the tree of root R and, beside it, root S with region A (one image directly
\* in it) and the empty region D
TwoRoots ==
    Tree(<< <<"1", "-", "5", ".", "j", "p", "g">> >>)
      @@ (Root2 :> <<Ent(C("A"), TRUE), Ent(C("D"), TRUE)>>)
      @@ (Append(Root2, C("A")) :> Files(<< <<"6", "-", "9", ".", "J", "P", "G">> >>))
      @@ (Append(Root2, C("D")) :> <<>>)

\* what QFileDialog.getExistingDirectory returns: a root, or nothing when the
\* dialog is cancelled
FolderChoices == {Root, Root2, <<>>}

\* Setup > Set Fieldbook Folder / Set Plot Register Folder
SetFolder(k, folder) ==
    /\ ~crashed
    /\ folder \in FolderChoices
    /\ IF folder # <<>>
       THEN /\ config' = [config EXCEPT ![FolderKey(k)] = folder]
            /\ last' = UiResult("set_folder", k, "Folder Set", NoDoc)
       ELSE /\ config' = config
            /\ last' = UiResult("set_folder", k, "cancelled", NoDoc)
    /\ UNCHANGED <<docVars, disk, bv, win, crashed>>

InitFolder ==
    /\ mgr = [k \in Kinds |-> NewMgr]
    /\ bindFailed = [k \in Kinds |-> FALSE]
    /\ config = [InitConfig EXCEPT !.fieldbook_folder = Root,
                                   !.plotregister_folder = Root]
    /\ last = InitLast
    /\ disk = TwoRoots
    /\ bv = Screen("home")
    /\ win = [k \in Kinds |-> NoWindow]
    /\ crashed = FALSE

NextFolder ==
    \/ \E k \in Kinds, folder \in FolderChoices : SetFolder(k, folder)
    \/ \E k \in Kinds : ShowBook(k)
    \/ \E k \in Kinds : OnBack(k)
    \/ \E t \in {C("A"), C("B"), C("D")} : SelectVdc(t)
    \/ \E t \in {C("1"), C("2"), NoSheet} : SelectWard(t)
    \/ \E t \in {C("7"), C("8")} : SelectSheet(t)
    \/ \E t \in {<<"4">>, <<"7">>} : EditParcel(t)
    \/ SearchImage

SpecFolder == InitFolder /\ [][NextFolder]_vars

\* the handlers of the viewer that list a directory level or locate a parcel
ListingOps == {"show_book", "update_wards", "update_sheets", "update_images",
               "search_image"}

\* C22: every listing and every locate of a viewer reads the root folder that
\* is configured for its kind at that moment: the viewer's folder is the
\* configured one, and an image a search opens lies under the configured root
C22_ListingsReadConfiguredRoot ==
    \A k \in Kinds :
        (bv.kind = k /\ last.kind = k /\ last.op \in ListingOps)
        => /\ bv.folder = config[FolderKey(k)]
           /\ (last.outcome = "opened" => IsPrefix(config[FolderKey(k)], win[k].dir))

-----------------------------------------------------------------------------
(* A session of pastes: the units a document gathers between two closes *)

\* units a document may hold before the session stops pasting
MaxSession == 3

\* the Paste button, while the document of kind k holds fewer than MaxSession
\* units
PasteInSession(k, img) ==
    /\ CountPics(mgr[k].doc.body) < MaxSession
    /\ paste_to_word(k, img)

InitPaste ==
    /\ mgr = [k \in Kinds |-> NewMgr]
    /\ bindFailed = [k \in Kinds |-> FALSE]
    /\ config = [fieldbook_template |-> "tA", plotregister_template |-> "tA",
                 fieldbook_folder |-> Root, plotregister_folder |-> Root]
    /\ last = InitLast
    /\ disk = Tree(<< <<"1", "-", "5", ".", "j", "p", "g">> >>)
    /\ bv = Screen("home")
    /\ win = [k \in Kinds |-> NoWindow]
    /\ crashed = FALSE

NextPaste ==
    \/ \E k \in Kinds : ShowBook(k)
    \/ EditParcel(<<"4">>)
    \/ SearchImage
    \/ \E k \in Kinds, img \in BOOLEAN : PasteInSession(k, img)
    \/ \E k \in Kinds, path \in UiTemplates \cup {"tBad", "tGone"} : LoadTemplate(k, path)
    \/ \E k \in Kinds : OnBack(k)

SpecPaste == InitPaste /\ [][NextPaste]_vars

\* the caption and the picture of one unit
Unit(meta) == <<El("cap", meta_text(meta), -1, TRUE), El("pic", <<>>, -1, TRUE)>>

\* C23: a successful paste rebinds exactly when the manager is not loaded or
\* is bound to another template than the configured one. Without a rebind it
\* adds one unit to the units already there, so k pastes in a row leave k
\* units; with a rebind the document is the configured template with that one
\* unit only, whatever the manager held. A paste that ends in a warning or in
\* the exception of an unreadable template leaves the manager as it was, and
\* between pastes only Back takes units away
C23_SessionAccumulation ==
    [][\A k \in Kinds :
         LET template_path == config[TemplateKey(k)]
             rebind == ~is_loaded(mgr[k]) \/ mgr[k].loaded_template # template_path
         IN  /\ (last'.op = "paste_to_word" /\ last'.kind = k
                   /\ last'.outcome = "Image Added")
                => /\ mgr'[k].loaded_template = template_path
                   /\ IF rebind
                      THEN /\ CountPics(mgr'[k].doc.body) = 1
                           /\ mgr'[k].doc.body
                                = TemplateDoc(template_path).body \o Unit(win[k].meta)
                           /\ mgr'[k].images_on_page = 1
                      ELSE /\ CountPics(mgr'[k].doc.body)
                                = CountPics(mgr[k].doc.body) + 1
                           /\ Len(mgr'[k].doc.body) > Len(mgr[k].doc.body)
                           /\ SubSeq(mgr'[k].doc.body, 1, Len(mgr[k].doc.body))
                                = mgr[k].doc.body
             /\ (last'.op = "paste_to_word" /\ last'.kind = k
                   /\ last'.outcome # "Image Added")
                => mgr'[k] = mgr[k]
             /\ (mgr'[k].doc.body # mgr[k].doc.body)
                => \/ last'.op = "paste_to_word" /\ last'.kind = k
                        /\ last'.outcome = "Image Added"
                   \/ last'.op = "on_back" /\ last'.kind = k]_vars

\* C23 witness: the third paste in a row into one document
C23_Witness ==
    \E k \in Kinds :
        /\ last.op = "paste_to_word" /\ last.kind = k /\ last.outcome = "Image Added"
        /\ last.pre.n = 2
        /\ CountPics(mgr[k].doc.body) = 3

\* C23 witness: a paste after the configured template changed dropped the two
\* units gathered so far
C23_WitnessDiscard ==
    \E k \in Kinds :
        /\ last.op = "paste_to_word" /\ last.kind = k /\ last.outcome = "Image Added"
        /\ last.pre.n = 2
        /\ CountPics(mgr[k].doc.body) = 1
        /\ mgr[k].loaded_template = "tB"

-----------------------------------------------------------------------------
(* C24: the outcomes of finalize_doc *)

\* C24: a finalize_doc on a manager that is not loaded reports "No Document"
\* and changes nothing; on a loaded manager it ends in one of three ways
\* without an exception leaving the slot: the footer dialog cancelled and the
\* manager unchanged; the footer fields stored and nothing else changed; or the
\* document saved with its units and the generated footer, and the manager
\* closed (no document, counter 0, no footer fields)
C24_ThreeOutcomes ==
    [][\A k \in Kinds :
         (last'.op = "finalize_doc" /\ last'.kind = k)
         => /\ crashed' = crashed
            /\ IF ~is_loaded(mgr[k])
               THEN last'.outcome = "No Document" /\ mgr'[k] = mgr[k]
               ELSE \/ last'.outcome = "cancelled" /\ mgr'[k] = mgr[k]
                    \/ /\ last'.outcome = "footer stored"
                       /\ mgr'[k].footer_info.set
                       /\ mgr'[k] = [mgr[k] EXCEPT !.footer_info = mgr'[k].footer_info]
                    \/ /\ last'.outcome = "Saved"
                       /\ last'.doc.body = mgr[k].doc.body
                       /\ IsGeneratedBlock(last'.doc.footers[1])
                       /\ mgr'[k] = NewMgr]_vars

-----------------------------------------------------------------------------
(* C25: the two managers *)

\* the handlers that work on a manager
ManagerOps == {"paste_to_word", "finalize_doc", "print_doc", "print_menu", "on_back"}

Other(k) == IF k = "fieldbook" THEN "plotregister" ELSE "fieldbook"

\* C25: a step changes a manager (its document, units, counter, footer fields
\* or bound template) only when it is a paste, Save, Print or Back for that
\* manager's kind: whatever is done for one kind, a template change included,
\* leaves the manager of the other kind as it was
C25_ManagersIndependent ==
    [][\A k \in Kinds :
         /\ (mgr'[k] # mgr[k]) => (last'.kind = k /\ last'.op \in ManagerOps)
         /\ (last'.kind = k) => mgr'[Other(k)] = mgr[Other(k)]]_vars

\* C25 witness: Back closed the document of one kind while the other manager
\* holds a unit in a document of its own
C25_Witness ==
    \E k \in Kinds :
        /\ last.op = "on_back" /\ last.kind = k /\ last.outcome = "closed"
        /\ mgr[k] = NewMgr
        /\ CountPics(mgr[Other(k)].doc.body) = 1
        /\ mgr[Other(k)].images_on_page = 1

\* C25 witness: one kind's document was saved and closed while the other
\* manager is bound to another template, with footer fields stored
C25_WitnessSaved ==
    /\ last.op = "finalize_doc" /\ last.kind = "fieldbook" /\ last.outcome = "Saved"
    /\ CountPics(last.doc.body) = 1
    /\ mgr["plotregister"].loaded_template = "tB"
    /\ mgr["plotregister"].footer_info.set
    /\ CountPics(mgr["plotregister"].doc.body) = 1

====
